---- MODULE Spec2Model ----
(***************************************************************************)
(* Jacinto server browser: the presence registry (src/server.py) and the   *)
(* heartbeat supervisor and clients of the desktop browser                 *)
(* (src/ez_browser.py).                                                    *)
(*                                                                         *)
(* Time is counted in whole seconds.  JSON objects are functions from      *)
(* field names to values; ports are integers (0 stands for a malformed     *)
(* port).                                                                  *)
(***************************************************************************)
EXTENDS Integers, Sequences, FiniteSets, TLC

\* ------------------------------------------------------------------ bounds
\* Largest value of the registry's clock.
MaxClock == 61

\* Largest number of add_server requests the registry handles at once.
MaxWorkers == 2
\* Largest number of threading.Event objects (heartbeat loops) ever created.
MaxEvents == 2
\* Largest value of a loop's failure counter.
MaxFailures == 2
\* Largest number of hb_color_signal emissions awaiting delivery.
MaxPending == 1
\* Largest number of hosts in hosts.json.
MaxHosts == 3

\* ------------------------------------------------------- program constants
\* Liveness window of get_servers, in seconds.
WINDOW == 60
\* Consecutive failures from which _hb_loop reports red.
FAILURE_THRESHOLD == 2
\* Seconds launch_selected sleeps between the server and the client.
WARMUP == 10

\* ------------------------------------------------------------ input domains
Names == {"Alpha", "Bravo"}
Ips == {"1.2.3.4"}
Ports == {7777, 7778}
\* A port that is not a positive integer.
MalformedPorts == {0}
Maps == {"District", "Gridlock"}
\* Seconds the clock may advance between two requests.
Delays == {59, 60, 61}
\* A last_seen value a caller may put in its payload.
ForgedLastSeen == 1000

VARIABLES
    servers,    \* server.py: the in-memory server list
    clock,      \* server.py: the value time.time() returns
    response,   \* server.py: the response to the last request
    workers,    \* server.py: the add_server requests being handled at once
    hosts,      \* ez_browser.py: the hosts of hosts.json (load_hosts)
    hb_threads, \* ez_browser.py: self.hb_threads, host id -> stop event
    events,     \* ez_browser.py: the threading.Event objects; TRUE when set
    loops,      \* ez_browser.py: the _hb_loop threads, one per event
    hb_signal,  \* ez_browser.py: hb_color_signal emissions queued by the
                \* loops for the GUI thread
    hb_status,  \* ez_browser.py: the colour of the self.hb_status label
    dialog,     \* ez_browser.py: the message box the last GUI handler showed
    closed,     \* ez_browser.py: closeEvent has run
    launch      \* ez_browser.py: the last launch_selected call: its row, what
                \* the password dialog returned, and its subprocess.Popen
                \* calls

regVars == <<servers, clock, response, workers>>
uiVars == <<hosts, hb_threads, events, loops, hb_signal, hb_status, dialog, closed,
            launch>>
vars == <<servers, clock, response, workers, hosts, hb_threads, events, loops,
          hb_signal, hb_status, dialog, closed, launch>>

\* ----------------------------------------------------------------- helpers
Min(S) == CHOOSE x \in S : \A y \in S : x <= y

\* dict.update(other)
DictUpdate(s, d) ==
    [k \in (DOMAIN s) \cup (DOMAIN d) |-> IF k \in DOMAIN d THEN d[k] ELSE s[k]]

\* d[key] = v
DictSet(d, key, v) ==
    [k \in (DOMAIN d) \cup {key} |-> IF k = key THEN v ELSE d[k]]

\* d.get(key, default)
DictGet(d, key, default) == IF key \in DOMAIN d THEN d[key] ELSE default

\* ------------------------------------------------------- registry: inputs
PayloadFields == {"name", "public_ip", "port", "map", "last_seen"}

Payload(n, i, p, m) ==
    [k \in PayloadFields |->
        CASE k = "name" -> n
          [] k = "public_ip" -> i
          [] k = "port" -> p
          [] k = "map" -> m
          [] OTHER -> ForgedLastSeen]

FullPayloads ==
    { Payload(n, i, p, m) : n \in Names, i \in Ips, p \in Ports, m \in Maps }
    \cup { Payload("Alpha", i, p, "District") : i \in Ips, p \in MalformedPorts }

\* Complete payloads, with or without a last_seen of the caller's own.
CompletePayloads ==
    { [k \in D |-> f[k]] :
        f \in FullPayloads, D \in { PayloadFields, PayloadFields \ {"last_seen"} } }

\* Incomplete payloads: one complete payload less one of its fields, and the
\* empty object.
IncompletePayloads ==
    LET Base == { f \in CompletePayloads :
                    f["name"] = "Alpha" /\ f["port"] = 7777 /\ f["map"] = "District" }
    IN  { [k \in (DOMAIN f) \ {gone} |-> f[k]] :
            f \in Base, gone \in PayloadFields \ {"last_seen"} }
        \cup { [k \in {} |-> 0] }

\* Every JSON object a caller posts.
Payloads == CompletePayloads \cup IncompletePayloads

\* ---------------------------------------------------- registry: add_server
RequiredFieldsNoMap == {"name", "public_ip", "port"}

RequiredFields == {"name", "public_ip", "port", "map"}

ExistingIndexByIp(list, data) ==
    LET I == { i \in 1..Len(list) : list[i]["public_ip"] = data["public_ip"] }
    IN  IF I = {} THEN 0 ELSE Min(I)

\* The first stored record with the payload's public_ip and port; 0 if none.
ExistingIndex(list, data) ==
    LET I == { i \in 1..Len(list) :
                 /\ list[i]["public_ip"] = data["public_ip"]
                 /\ list[i]["port"] = data["port"] }
    IN  IF I = {} THEN 0 ELSE Min(I)

UpsertAlwaysAppend(list, data, now) == Append(list, DictSet(data, "last_seen", now))

UpsertKeepsFields(list, data, now) ==
    LET idx == ExistingIndex(list, data)
    IN  IF idx # 0
        THEN [list EXCEPT ![idx] = DictSet(list[idx], "last_seen", now)]
        ELSE Append(list, DictSet(data, "last_seen", now))

UpsertTrustsCaller(list, data, now) ==
    LET idx == ExistingIndex(list, data)
        seen == DictGet(data, "last_seen", now)
    IN  IF idx # 0
        THEN [list EXCEPT ![idx] = DictSet(DictUpdate(list[idx], data), "last_seen", seen)]
        ELSE Append(list, DictSet(data, "last_seen", seen))

\* The update-or-add loop of add_server.
Upsert(list, data, now) ==
    LET idx == ExistingIndex(list, data)
    IN  IF idx # 0
        THEN [list EXCEPT ![idx] = DictSet(DictUpdate(list[idx], data), "last_seen", now)]
        ELSE Append(list, DictSet(data, "last_seen", now))

add_server(data) ==
    IF ~(RequiredFields \subseteq DOMAIN data)
    THEN /\ response' = [route |-> "/add_server", code |-> 400,
                         json |-> [error |-> "Missing required server fields"]]
         /\ UNCHANGED <<servers, clock, uiVars, workers>>
    ELSE /\ servers' = Upsert(servers, data, clock)
         /\ response' = [route |-> "/add_server", code |-> 200,
                         json |-> [status |-> "Server registered/updated"]]
         /\ UNCHANGED <<clock, uiVars, workers>>

\* ---------------------------------------------------- registry: get_servers
FreshInclusive(s, now) == now - DictGet(s, "last_seen", 0) <= WINDOW

Fresh(s, now) == now - DictGet(s, "last_seen", 0) < WINDOW

fresh_servers(list, now) == SelectSeq(list, LAMBDA s : Fresh(s, now))

get_servers_collecting ==
    /\ response' = [route |-> "/servers", code |-> 200,
                    json |-> fresh_servers(servers, clock)]
    /\ servers' = fresh_servers(servers, clock)
    /\ UNCHANGED <<clock, uiVars, workers>>

get_servers_refreshing ==
    /\ response' = [route |-> "/servers", code |-> 200,
                    json |-> fresh_servers(servers, clock)]
    /\ servers' = [i \in 1..Len(servers) |->
                      IF Fresh(servers[i], clock)
                      THEN DictSet(servers[i], "last_seen", clock)
                      ELSE servers[i]]
    /\ UNCHANGED <<clock, uiVars, workers>>

get_servers ==
    /\ response' = [route |-> "/servers", code |-> 200,
                    json |-> fresh_servers(servers, clock)]
    /\ UNCHANGED <<servers, clock, uiVars, workers>>

\* ------------------------------------- registry: requests handled at once
\* The payloads of callers that announce at the same time.
ConcurrentPayloads ==
    { data \in Payloads :
        /\ "last_seen" \notin DOMAIN data
        /\ "port" \in DOMAIN data => data["port"] = 7777 }

\* A request thread runs add_server down to the end of its for loop: it
\* answers 400, or updates the record it found and answers 200, or leaves the
\* loop with server_exists false.
AddServerScan(w, data) ==
    /\ workers[w].pc = "idle"
    /\ IF ~(RequiredFields \subseteq DOMAIN data)
       THEN /\ response' = [route |-> "/add_server", code |-> 400,
                            json |-> [error |-> "Missing required server fields"]]
            /\ UNCHANGED <<servers, workers>>
       ELSE IF ExistingIndex(servers, data) # 0
       THEN /\ servers' = Upsert(servers, data, clock)
            /\ response' = [route |-> "/add_server", code |-> 200,
                            json |-> [status |-> "Server registered/updated"]]
            /\ UNCHANGED workers
       ELSE /\ workers' = [workers EXCEPT ![w] = [pc |-> "append", data |-> data]]
            /\ UNCHANGED <<servers, response>>
    /\ UNCHANGED <<clock, uiVars>>

\* if not server_exists: the thread appends its record and answers 200.
AddServerAppend(w) ==
    /\ workers[w].pc = "append"
    /\ servers' = Append(servers, DictSet(workers[w].data, "last_seen", clock))
    /\ response' = [route |-> "/add_server", code |-> 200,
                    json |-> [status |-> "Server registered/updated"]]
    /\ workers' = [workers EXCEPT ![w] = [pc |-> "idle"]]
    /\ UNCHANGED <<clock, uiVars>>

\* ------------------------------------------------------------------- time
Tick(d) ==
    /\ clock + d <= MaxClock
    /\ clock' = clock + d
    /\ UNCHANGED <<servers, response, uiVars, workers>>

\* ------------------------------------------------------ browser: hosts.json
Host(id, name, public_ip, local_ip, port, map, password, exe_path) ==
    [id |-> id, name |-> name, public_ip |-> public_ip, local_ip |-> local_ip,
     port |-> port, map |-> map, password |-> password, exe_path |-> exe_path]

\* The hosts the user has configured.
ConfiguredHosts ==
    << Host("h1", "Alpha", "1.2.3.4", "192.168.0.2", 7777, "District", "abc", "game.exe"),
       Host("h2", "Bravo", "1.2.3.4", "192.168.0.2", 7778, "Gridlock", "", "game.exe") >>

EmptyDict == [k \in {} |-> 0]

\* self.my_list.currentRow(): -1 when nothing is selected.
Rows == -1 .. (Len(hosts) - 1)

\* ------------------------------------------------- browser: choose_exe_path
\* What QFileDialog.getOpenFileName can return: "" when it is dismissed.
ChosenPaths == {"", "game.exe", "other.exe"}

\* choose_exe_path: the chosen path, None ("") when the dialog is dismissed.
choose_exe_path(chosen) == chosen

\* ------------------------------------------- browser: add_server, edit_or_remove
\* The ids uuid.uuid4() can give; the configured hosts have two of them.
HostIds == {"h1", "h2", "h3", "h4", "h5"}

\* str(uuid.uuid4()): an id no stored host has.
FreshId(hs) == CHOOSE id \in HostIds : \A i \in 1..Len(hs) : hs[i].id # id

\* from_prompt returning None.
NoHost == Host("", "", "", "", 0, "", "", "")

\* text.strip() on the texts a user types for a name or a port.
Strip(text) ==
    CASE text = "  " -> ""
      [] text = " 7777 " -> "7777"
      [] OTHER -> text

\* action.strip().lower() on the texts a user types for an action.
StripLower(text) ==
    CASE text = " Remove" -> "remove"
      [] text = "EDIT" -> "edit"
      [] OTHER -> text

\* int(vals[3]): 0 stands for ValueError.
IntOf(text) ==
    CASE text = "7777" -> 7777
      [] text = "7778" -> 7778
      [] OTHER -> 0

\* The answers to the dialogs of from_prompt: the name typed, the port typed,
\* whether the five text dialogs were accepted, the password dialog's text and
\* acceptance, and the file dialog's path.
PromptAnswers ==
    [name : {"Charlie", "  "}, port : {" 7777 ", "7778", "port"}, ok : BOOLEAN,
     pw : {"abc"}, pw_ok : BOOLEAN, chosen : ChosenPaths]

\* Host.from_prompt: None when a text dialog is cancelled or left blank, the
\* password dialog is cancelled, the port is no integer or no path is chosen.
from_prompt(a, id) ==
    IF ~a.ok \/ Strip(a.name) = "" \/ Strip(a.port) = "" THEN NoHost
    ELSE IF ~a.pw_ok THEN NoHost
    ELSE IF IntOf(Strip(a.port)) = 0 THEN NoHost
    ELSE IF choose_exe_path(a.chosen) = "" THEN NoHost
    ELSE Host(id, Strip(a.name), "1.2.3.4", "192.168.0.2", IntOf(Strip(a.port)),
              "District", a.pw, choose_exe_path(a.chosen))

\* The message box from_prompt shows: Error when the port is no integer.
from_prompt_dialog(a) ==
    IF /\ a.ok /\ Strip(a.name) # "" /\ Strip(a.port) # "" /\ a.pw_ok
       /\ IntOf(Strip(a.port)) = 0
    THEN "Error"
    ELSE ""

\* any(h.public_ip == new_host.public_ip and h.port == new_host.port ...)
Duplicate(hs, new_host) ==
    \E i \in 1..Len(hs) :
        hs[i].public_ip = new_host.public_ip /\ hs[i].port = new_host.port

\* JacintoLobbyBrowser.add_server: the Add Server button.
ui_add_server(a) ==
    /\ ~closed
    /\ LET new_host == from_prompt(a, FreshId(hosts))
       IN  IF new_host = NoHost
           THEN /\ dialog' = from_prompt_dialog(a)
                /\ hosts' = hosts
           ELSE IF Duplicate(hosts, new_host)
           THEN /\ dialog' = "Duplicate"
                /\ hosts' = hosts
           ELSE /\ Len(hosts) < MaxHosts
                /\ hosts' = Append(hosts, new_host)
                /\ dialog' = ""
    /\ UNCHANGED <<hb_threads, events, loops, hb_signal, hb_status, closed, launch>>
    /\ UNCHANGED regVars

\* The texts a user types in the Edit or Remove dialog.
ActionTexts == {" Remove", "path", "EDIT", "keep"}

\* del hosts[idx]
DelAt(hs, i) == [j \in 1..(Len(hs) - 1) |-> IF j < i THEN hs[j] ELSE hs[j + 1]]

\* edit_or_remove: idx is the current row, text and ok the action dialog's
\* answer, a the answers to the dialogs that follow: the file dialog of path,
\* or those of from_prompt.
edit_or_remove(idx, text, ok, a) ==
    /\ ~closed
    /\ IF idx < 0
       THEN /\ dialog' = "Select"
            /\ hosts' = hosts
       ELSE IF ~ok
       THEN /\ dialog' = ""
            /\ hosts' = hosts
       ELSE LET host == hosts[idx + 1]
                action == StripLower(text)
            IN  IF action = "remove"
                THEN /\ hosts' = DelAt(hosts, idx + 1)
                     /\ dialog' = ""
                ELSE IF action = "path"
                THEN /\ hosts' = IF choose_exe_path(a.chosen) = "" THEN hosts
                                 ELSE [hosts EXCEPT ![idx + 1].exe_path =
                                                        choose_exe_path(a.chosen)]
                     /\ dialog' = ""
                ELSE IF action # "edit"
                THEN /\ dialog' = "No Change"
                     /\ hosts' = hosts
                ELSE LET edited == from_prompt(a, FreshId(hosts))
                     IN  IF edited = NoHost
                         THEN /\ dialog' = from_prompt_dialog(a)
                              /\ hosts' = hosts
                         ELSE /\ hosts' = [hosts EXCEPT ![idx + 1] =
                                                [edited EXCEPT !.id = host.id]]
                              /\ dialog' = ""
    /\ UNCHANGED <<hb_threads, events, loops, hb_signal, hb_status, closed, launch>>
    /\ UNCHANGED regVars

\* ------------------------------------------------ browser: manual_start_heartbeat
\* host.id in self.hb_threads and not self.hb_threads[host.id].is_set()
AlreadyRunningNoCheck(id) == FALSE

AlreadyRunning(id) == id \in DOMAIN hb_threads /\ ~events[hb_threads[id]]

manual_start_heartbeat(idx) ==
    /\ ~closed
    /\ IF idx < 0
       THEN /\ dialog' = "Select"
            /\ UNCHANGED <<hosts, hb_threads, events, loops, hb_signal, hb_status, closed>>
       ELSE LET host == hosts[idx + 1]
            IN  IF AlreadyRunning(host.id)
                THEN /\ dialog' = "Already Running"
                     /\ UNCHANGED <<hosts, hb_threads, events, loops, hb_signal,
                                    hb_status, closed>>
                ELSE /\ Len(events) < MaxEvents
                     /\ events' = Append(events, FALSE)
                     /\ hb_threads' = DictSet(hb_threads, host.id, Len(events) + 1)
                     /\ hb_status' = "#ffaa00"
                     /\ loops' = Append(loops, [host |-> host, failures |-> 0,
                                                inflight |-> 0, pc |-> "start"])
                     /\ dialog' = ""
                     /\ UNCHANGED <<hosts, hb_signal, closed>>
    /\ UNCHANGED <<regVars, launch>>

\* ------------------------------------------------- browser: manual_stop_heartbeat
TrackedFirstOnly ==
    LET T == { hb_threads[id] : id \in DOMAIN hb_threads }
    IN  IF T = {} THEN {} ELSE { Min(T) }

\* The events self.hb_threads tracks.
Tracked == { hb_threads[id] : id \in DOMAIN hb_threads }

SetAllNone(evs, which) == evs

\* ev.set() for every event of `which`.
SetAll(evs, which) == [e \in 1..Len(evs) |-> evs[e] \/ e \in which]

manual_stop_heartbeat ==
    /\ ~closed
    /\ LET any_running == \E e \in Tracked : ~events[e]
       IN  /\ events' = SetAll(events, Tracked)
           /\ hb_threads' = EmptyDict
           /\ IF any_running
              THEN /\ hb_status' = "red"
                   /\ dialog' = "Stopped"
              ELSE /\ dialog' = "No Active Heartbeat"
                   /\ UNCHANGED hb_status
    /\ UNCHANGED <<hosts, loops, hb_signal, closed>>
    /\ UNCHANGED <<regVars, launch>>

\* ------------------------------------------------------------ browser: _hb_loop
hb_payload_whole(host) == host

\* payload = {"name": ..., "public_ip": ..., "port": int(host.port), "map": ...}
hb_payload(host) ==
    [k \in {"name", "public_ip", "port", "map"} |-> host[k]]

\* The values the fields the loop does not send take in hosts.json.
LocalIps == {"192.168.0.2", "10.0.0.5"}
Passwords == {"", "abc"}
ExePaths == {"", "game.exe"}

\* The configured hosts as edit_or_remove can leave them: with every choice of
\* map, local_ip, password and exe_path.
HostVariants ==
    { [ConfiguredHosts[n] EXCEPT !.map = m, !.local_ip = l, !.password = p,
                                 !.exe_path = x] :
        n \in 1..Len(ConfiguredHosts), m \in Maps, l \in LocalIps, p \in Passwords,
        x \in ExePaths }

\* The request of requests.post(f"{BACKEND_URL}/add_server", json=payload)
\* handled by the registry.
hb_announce(host) == add_server(hb_payload(host))

\* What requests.post ends with: a 2xx response, another status code, or an
\* exception (transport error or the 3 second timeout).
Outcomes == {"2xx", "non2xx", "exception"}

LoopIgnoresEvent(e) == "post"

LoopTestAnyEvent(e) ==
    IF \E f \in 1..Len(events) : events[f] THEN "done" ELSE "post"

LoopExitsOnDegraded(e) ==
    IF events[e] \/ loops[e].failures >= FAILURE_THRESHOLD THEN "done" ELSE "post"

\* while not stop_event.is_set(): where the loop goes next.
LoopTest(e) == IF events[e] THEN "done" ELSE "post"

\* The loop's test, after which a finished thread has no locals left; a loop
\* that goes on calls requests.post, which sends its request.
TestLoop(e) ==
    loops' = [loops EXCEPT ![e].pc = LoopTest(e),
                           ![e].failures = IF LoopTest(e) = "done" THEN 0 ELSE @,
                           ![e].inflight = IF LoopTest(e) = "post" THEN @ + 1 ELSE @]

\* The thread starts and makes its first test of the loop.
HbStart(e) ==
    /\ loops[e].pc = "start"
    /\ TestLoop(e)
    /\ UNCHANGED <<hosts, hb_threads, events, hb_signal, hb_status, dialog, closed>>
    /\ UNCHANGED <<regVars, launch>>

FailuresNeverReset(failures, outcome) ==
    IF outcome = "2xx" THEN failures ELSE failures + 1

\* failures = 0 on 2xx, failures += 1 otherwise
FailuresAfter(failures, outcome) ==
    IF outcome = "2xx" THEN 0 ELSE failures + 1

DegradedAtOne(failures) == failures >= 1

\* if failures >= 2
Degraded(failures) == failures >= FAILURE_THRESHOLD

\* The hb_color_signal emissions of one iteration of the loop.
Emissions(failures, outcome) ==
    (IF outcome = "2xx" THEN <<"lime">> ELSE <<>>)
    \o (IF Degraded(FailuresAfter(failures, outcome)) THEN <<"red">> ELSE <<>>)

InFlightFireAndForget(n) == n

\* requests.post is a blocking call: when it returns or raises, the request it
\* sent is over.
InFlightAfterPost(n) == n - 1

\* requests.post returns or raises, the loop counts and reports, and reaches
\* stop_event.wait.  The registry's side of the request is add_server.
HbPost(e, outcome) ==
    /\ loops[e].pc = "post"
    /\ FailuresAfter(loops[e].failures, outcome) <= MaxFailures
    /\ Len(hb_signal) + Len(Emissions(loops[e].failures, outcome)) <= MaxPending
    /\ loops' = [loops EXCEPT ![e].pc = "wait",
                              ![e].failures = FailuresAfter(@, outcome),
                              ![e].inflight = InFlightAfterPost(@)]
    /\ hb_signal' = hb_signal \o Emissions(loops[e].failures, outcome)
    /\ UNCHANGED <<regVars, launch>>
    /\ UNCHANGED <<hosts, hb_threads, events, hb_status, dialog, closed>>

\* stop_event.wait(HEARTBEAT_INTERVAL) returns, the interval being over or the
\* event set, and the loop makes its test again.
HbWait(e) ==
    /\ loops[e].pc = "wait"
    /\ TestLoop(e)
    /\ UNCHANGED <<hosts, hb_threads, events, hb_signal, hb_status, dialog, closed>>
    /\ UNCHANGED <<regVars, launch>>

\* The GUI thread runs the slot of one queued emission: _set_hb_color.
DeliverSignal ==
    /\ ~closed
    /\ hb_signal # <<>>
    /\ hb_status' = Head(hb_signal)
    /\ hb_signal' = Tail(hb_signal)
    /\ UNCHANGED <<hosts, hb_threads, events, loops, dialog, closed>>
    /\ UNCHANGED <<regVars, launch>>

\* ------------------------------------------------------------ browser: closeEvent
closeEvent ==
    /\ ~closed
    /\ events' = SetAll(events, Tracked)
    /\ closed' = TRUE
    /\ UNCHANGED <<hosts, hb_threads, loops, hb_signal, hb_status, dialog>>
    /\ UNCHANGED <<regVars, launch>>

\* ------------------------------------------------------ browser: launch_selected
\* What QInputDialog.getText can return as text: nothing, the password of the
\* first host, and another text.
EnteredPasswords == {"", "abc", "abd"}

\* Seconds time.sleep may take beyond the time asked for.
SleepOvershoot == {0, 1}

\* The launch record before launch_selected has ever run.
NoLaunch == [row |-> -1, prompted |-> FALSE, pw |-> "", ok |-> FALSE, calls |-> <<>>]

\* f"{ip}:{port}"
Endpoint(ip, port) == <<ip, port>>

\* The items _refresh_available shows when both configured hosts are listed:
\* f"{s['name']} - {s['public_ip']}:{s['port']}", as name and endpoint.
AvailableItems ==
    [n \in 1..Len(ConfiguredHosts) |->
        [name |-> ConfiguredHosts[n].name,
         endpoint |-> Endpoint(ConfiguredHosts[n].public_ip, ConfiguredHosts[n].port)]]

\* self.available_list.currentRow()
AvailableRows == -1 .. (Len(AvailableItems) - 1)

\* text.split(" - ", 1)[1]
ParseEndpoint(item) == item.endpoint

ensure_host_exe_stale(host, exists, chosen) ==
    IF host.exe_path # "" /\ (exists \/ chosen = "") THEN host.exe_path ELSE chosen

\* _ensure_host_exe: the stored path when it is set and exists, the chosen one
\* otherwise.
ensure_host_exe(host, exists, chosen) ==
    IF host.exe_path # "" /\ exists THEN host.exe_path ELSE choose_exe_path(chosen)

\* _ensure_host_exe saves a chosen path to the first host with the id.
SaveExe(hs, host, exists, chosen) ==
    IF (host.exe_path # "" /\ exists) \/ chosen = ""
    THEN hs
    ELSE LET first == Min({ i \in 1..Len(hs) : hs[i].id = host.id })
         IN  [hs EXCEPT ![first].exe_path = chosen]

\* One subprocess.Popen call: its arguments, the seconds since the handler
\* began, and whether the process was created (Popen raises otherwise).
ServerCall(exe, cfg, at, created) ==
    [kind |-> "server", exe |-> exe, map |-> cfg.map, target |-> Endpoint("", cfg.port),
     at |-> at, created |-> created]

ClientCall(exe, endpoint, at, created) ==
    [kind |-> "client", exe |-> exe, map |-> "", target |-> endpoint,
     at |-> at, created |-> created]

IsHostWhenAccepted(ok, pw, password) == ok

\* if ok and pw == cfg.password
IsHost(ok, pw, password) == ok /\ pw = password

HostCallsKeepGoing(exe, cfg, created, late) ==
    << ServerCall(exe, cfg, 0, created[1]),
       ClientCall(exe, Endpoint(cfg.local_ip, cfg.port), WARMUP + late, created[2]) >>

\* The Popen calls of the host path: the server, then after the sleep the
\* client at local_ip:port; an exception ends the try block.
HostCalls(exe, cfg, created, late) ==
    IF ~created[1]
    THEN << ServerCall(exe, cfg, 0, FALSE) >>
    ELSE << ServerCall(exe, cfg, 0, TRUE),
            ClientCall(exe, Endpoint(cfg.local_ip, cfg.port), WARMUP + late, created[2]) >>

GuestCallsLocal(exe, cfg, created) ==
    << ClientCall(exe, Endpoint(cfg.local_ip, cfg.port), 0, created[1]) >>

\* The Popen call of the guest path: the client at public_ip:port.
GuestCalls(exe, cfg, created) ==
    << ClientCall(exe, Endpoint(cfg.public_ip, cfg.port), 0, created[1]) >>

\* except Exception as e: QMessageBox.critical(self, "Launch Error", str(e))
LaunchDialog(calls) ==
    IF \E c \in 1..Len(calls) : ~calls[c].created THEN "Launch Error" ELSE ""

\* launch_selected: idx and aidx are the current rows of the two lists, exists
\* is os.path.exists(exe_path), chosen the file dialog's answer, pw and ok the
\* password dialog's, created whether the first and the second Popen create
\* their process, late the overshoot of time.sleep.
launch_selected(idx, aidx, exists, chosen, pw, ok, created, late) ==
    /\ ~closed
    /\ IF idx >= 0
       THEN LET cfg == hosts[idx + 1]
                exe == ensure_host_exe(cfg, exists, chosen)
            IN  /\ hosts' = SaveExe(hosts, cfg, exists, chosen)
                /\ IF exe = ""
                   THEN /\ dialog' = "Error"
                        /\ launch' = [row |-> idx, prompted |-> FALSE, pw |-> "",
                                      ok |-> FALSE, calls |-> <<>>]
                   ELSE LET calls == IF IsHost(ok, pw, cfg.password)
                                     THEN HostCalls(exe, cfg, created, late)
                                     ELSE GuestCalls(exe, cfg, created)
                        IN  /\ launch' = [row |-> idx, prompted |-> TRUE, pw |-> pw,
                                          ok |-> ok, calls |-> calls]
                            /\ dialog' = LaunchDialog(calls)
       ELSE /\ hosts' = hosts
            /\ IF aidx < 0
               THEN /\ dialog' = "Select"
                    /\ launch' = [NoLaunch EXCEPT !.row = aidx]
               ELSE LET endpoint == ParseEndpoint(AvailableItems[aidx + 1])
                        exe == choose_exe_path(chosen)
                        calls == IF exe = "" THEN <<>>
                                 ELSE << ClientCall(exe, endpoint, 0, created[1]) >>
                    IN  /\ launch' = [NoLaunch EXCEPT !.row = aidx, !.calls = calls]
                        /\ dialog' = LaunchDialog(calls)
    /\ UNCHANGED <<hb_threads, events, loops, hb_signal, hb_status, closed>>
    /\ UNCHANGED regVars

\* -------------------------------------------------------- specifications
InitRegistry ==
    /\ servers = <<>>
    /\ clock = 0
    /\ response = [route |-> "", code |-> 0, json |-> <<>>]
    /\ workers = [w \in 1..MaxWorkers |-> [pc |-> "idle"]]

InitBrowser ==
    /\ hosts = ConfiguredHosts
    /\ hb_threads = EmptyDict
    /\ events = <<>>
    /\ loops = <<>>
    /\ hb_signal = <<>>
    /\ hb_status = "red"
    /\ dialog = ""
    /\ closed = FALSE
    /\ launch = NoLaunch

Init == InitRegistry /\ InitBrowser

NextRegistry ==
    \/ \E data \in Payloads : add_server(data)
    \/ get_servers
    \/ \E d \in Delays : Tick(d)

NextBrowser ==
    \/ \E idx \in Rows : manual_start_heartbeat(idx)
    \/ manual_stop_heartbeat
    \/ \E e \in 1..Len(loops) : HbStart(e)
    \/ \E e \in 1..Len(loops), outcome \in Outcomes : HbPost(e, outcome)
    \/ \E e \in 1..Len(loops) : HbWait(e)
    \/ DeliverSignal
    \/ closeEvent

\* The Launch button, with every answer of the dialogs, the file system and
\* process creation.
NextLaunch ==
    \E idx \in Rows, aidx \in AvailableRows, exists \in BOOLEAN,
       chosen \in ChosenPaths, pw \in EnteredPasswords, ok \in BOOLEAN,
       created \in BOOLEAN \X BOOLEAN, late \in SleepOvershoot :
        launch_selected(idx, aidx, exists, chosen, pw, ok, created, late)

\* The Add Server and Edit / Remove buttons.
NextStore ==
    \/ \E a \in PromptAnswers : ui_add_server(a)
    \/ \E idx \in Rows, text \in ActionTexts, ok \in BOOLEAN, a \in PromptAnswers :
          edit_or_remove(idx, text, ok, a)

Next == NextRegistry \/ NextBrowser \/ NextLaunch \/ NextStore

Spec == Init /\ [][Next]_vars

SpecRegistry == Init /\ [][NextRegistry]_vars

SpecBrowser == Init /\ [][NextBrowser]_vars

\* The scheduling of the browser's threads: a started thread runs, requests.post
\* returns or raises (timeout=3), stop_event.wait returns when the interval is
\* over or the event is set, and the GUI thread's event loop runs the queued
\* slots while the window is open.
FairBrowser ==
    /\ \A e \in 1..MaxEvents : WF_vars(e <= Len(loops) /\ HbStart(e))
    /\ \A e \in 1..MaxEvents :
          SF_vars(e <= Len(loops) /\ \E outcome \in Outcomes : HbPost(e, outcome))
    /\ \A e \in 1..MaxEvents : WF_vars(e <= Len(loops) /\ HbWait(e))
    /\ WF_vars(DeliverSignal)

\* The browser started with a hosts.json of one host.
InitOneHost ==
    /\ InitRegistry
    /\ hosts = <<ConfiguredHosts[1]>>
    /\ hb_threads = EmptyDict
    /\ events = <<>>
    /\ loops = <<>>
    /\ hb_signal = <<>>
    /\ hb_status = "red"
    /\ dialog = ""
    /\ closed = FALSE
    /\ launch = NoLaunch

\* The sessions of one host, started and stopped again and again, under the
\* scheduling of the threads.
SpecCancel == InitOneHost /\ [][NextBrowser]_vars /\ FairBrowser

\* The registry with heartbeat loops as its only callers.
NextAnnounce ==
    \/ \E host \in HostVariants : hb_announce(host)
    \/ get_servers
    \/ \E d \in Delays : Tick(d)

SpecAnnounce == Init /\ [][NextAnnounce]_vars

SpecLaunch == Init /\ [][NextLaunch]_vars

\* The hosts load_hosts returns for a hosts.json whose entries have no
\* exe_path: h["exe_path"] = "".
HostsWithoutExe ==
    [n \in 1..Len(ConfiguredHosts) |-> [ConfiguredHosts[n] EXCEPT !.exe_path = ""]]

InitWithoutExe ==
    /\ InitRegistry
    /\ hosts = HostsWithoutExe
    /\ hb_threads = EmptyDict
    /\ events = <<>>
    /\ loops = <<>>
    /\ hb_signal = <<>>
    /\ hb_status = "red"
    /\ dialog = ""
    /\ closed = FALSE
    /\ launch = NoLaunch

\* The Launch button of a browser whose hosts have no executable yet.
SpecLaunchWithoutExe == InitWithoutExe /\ [][NextLaunch]_vars

\* The Launch button used while heartbeats of one host are started and
\* stopped.
NextLaunchWhileHosting ==
    \/ NextLaunch
    \/ \E idx \in Rows : manual_start_heartbeat(idx)
    \/ manual_stop_heartbeat

SpecLaunchWhileHosting == InitOneHost /\ [][NextLaunchWhileHosting]_vars

SpecStore == Init /\ [][NextStore]_vars

\* The registry serving its requests in threads.
NextConcurrent ==
    \/ \E w \in 1..MaxWorkers, data \in ConcurrentPayloads : AddServerScan(w, data)
    \/ \E w \in 1..MaxWorkers : AddServerAppend(w)
    \/ get_servers

SpecConcurrent == Init /\ [][NextConcurrent]_vars

\* ------------------------------------------------------------ properties
SameKey(a, b) == a["public_ip"] = b["public_ip"] /\ a["port"] = b["port"]

InSeq(x, list) == \E j \in 1..Len(list) : list[j] = x

\* C1: the stored list never holds two records with the same
\* (public_ip, port).
OneRecordPerKey ==
    \A i, j \in 1..Len(servers) : i # j => ~SameKey(servers[i], servers[j])

\* Two keys are stored and the first stored was announced again after the
\* second was added.
OneRecordPerKeyWitness ==
    /\ Len(servers) >= 2
    /\ servers[1]["last_seen"] > servers[2]["last_seen"]

\* C2: after a successful Announce, a List at once returns exactly one record
\* with the payload's (public_ip, port), carrying the payload's name and map.
AnnounceThenListShowsLatest ==
    [][\A data \in Payloads :
          (/\ {"name", "public_ip", "port", "map"} \subseteq DOMAIN data
           /\ add_server(data))
          => LET live == fresh_servers(servers', clock')
                 K == { i \in 1..Len(live) : SameKey(live[i], data) }
             IN  /\ Cardinality(K) = 1
                 /\ \A i \in K : /\ live[i]["name"] = data["name"]
                                 /\ live[i]["map"] = data["map"]]_vars

\* A key announced at time 0 as Alpha/District was announced again later as
\* Bravo/Gridlock, and a List was answered with that one record.
AnnounceThenListShowsLatestWitness ==
    /\ response.route = "/servers"
    /\ Len(servers) = 1
    /\ servers[1]["name"] = "Bravo" /\ servers[1]["map"] = "Gridlock"
    /\ servers[1]["last_seen"] = clock /\ clock > 0
    /\ response.json = servers

\* C3: List returns exactly the stored records younger than 60 seconds: a
\* record aged 59 is returned, one aged 60 or 61 is not.
ListReturnsExactlyFresh ==
    [][get_servers =>
          LET out == response'.json
          IN  /\ \A i \in 1..Len(servers) :
                    LET age == clock - servers[i]["last_seen"]
                    IN  /\ age <= 59 => InSeq(servers[i], out)
                        /\ age >= 60 => ~InSeq(servers[i], out)
              /\ \A j \in 1..Len(out) : InSeq(out[j], servers)
              /\ Len(out) <= Len(servers)]_vars

\* A List answered without the stored record aged exactly 60 and with the
\* younger one.
ListReturnsExactlyFreshWitness ==
    /\ response.route = "/servers"
    /\ Len(servers) = 2
    /\ \E i, j \in 1..2 :
          /\ clock - servers[i]["last_seen"] = 60 /\ ~InSeq(servers[i], response.json)
          /\ clock - servers[j]["last_seen"] < 60 /\ InSeq(servers[j], response.json)
    /\ Len(response.json) = 1

\* C4: an Announce lacking a required field is answered 400 and leaves the
\* stored list as it was.
MissingFieldRejected ==
    [][\A data \in Payloads :
          (/\ ~({"name", "public_ip", "port", "map"} \subseteq DOMAIN data)
           /\ add_server(data))
          => /\ response'.code = 400
             /\ servers' = servers]_vars

\* An Announce was answered 400 while records were stored.
MissingFieldRejectedWitness ==
    /\ response.route = "/add_server"
    /\ response.code = 400
    /\ Len(servers) >= 2

\* C5: an Announce whose port is not a positive integer is rejected and
\* leaves the stored list as it was.
MalformedPortRejected ==
    [][\A data \in Payloads :
          (/\ "port" \in DOMAIN data
           /\ data["port"] <= 0
           /\ add_server(data))
          => /\ response'.code = 400
             /\ servers' = servers]_vars

\* C6: StartHeartbeat for an identity shows Already Running exactly when the
\* table holds an event for the identity that is not set, and then changes
\* nothing; otherwise it records a new session and starts one new loop.  Either
\* way one loop with an unset signal exists for the identity afterwards.
StartHeartbeatOncePerIdentity ==
    [][\A idx \in Rows :
          (idx >= 0 /\ manual_start_heartbeat(idx))
          => LET id == hosts[idx + 1].id
                 running == id \in DOMAIN hb_threads /\ ~events[hb_threads[id]]
                 uncancelled == { e \in 1..Len(loops') :
                                    loops'[e].host.id = id /\ ~events'[e] }
             IN  /\ Cardinality(uncancelled) = 1
                 /\ IF running
                    THEN /\ dialog' = "Already Running"
                         /\ hb_threads' = hb_threads
                         /\ events' = events
                         /\ loops' = loops
                    ELSE /\ dialog' # "Already Running"
                         /\ Len(loops') = Len(loops) + 1
                         /\ Len(events') = Len(events) + 1
                         /\ \A e \in 1..Len(loops) :
                               loops'[e] = loops[e] /\ events'[e] = events[e]
                         /\ loops'[Len(loops')].host.id = id
                         /\ hb_threads'[id] = Len(loops')
                         /\ DOMAIN hb_threads' = DOMAIN hb_threads \cup {id}]_vars

\* A second start for the only session's identity was answered Already Running.
StartHeartbeatOncePerIdentityWitness ==
    /\ dialog = "Already Running"
    /\ Len(loops) = 1
    /\ ~events[1]
    /\ hb_threads = [k \in {loops[1].host.id} |-> 1]

\* C7: a loop reports red after an announce exactly when its consecutive
\* failures have reached 2; a 2xx answer reports lime and resets the counter
\* to 0; a first failure reports nothing.
DegradedAtTwoFailures ==
    [][\A e \in 1..Len(loops), outcome \in Outcomes :
          HbPost(e, outcome)
          => LET before == loops[e].failures
                 after == loops'[e].failures
                 emitted == SubSeq(hb_signal', Len(hb_signal) + 1, Len(hb_signal'))
             IN  /\ hb_signal' = hb_signal \o emitted
                 /\ IF outcome = "2xx"
                    THEN after = 0 /\ emitted = <<"lime">>
                    ELSE /\ after = before + 1
                         /\ after >= 2 => emitted = <<"red">>
                         /\ after < 2 => emitted = <<>>]_vars

\* The only loop, never cancelled, had its red shown and has since announced
\* with success: its counter is 0 and its lime awaits delivery.
DegradedAtTwoFailuresWitness ==
    /\ Len(loops) = 1
    /\ ~events[1]
    /\ hb_status = "red"
    /\ hb_signal = <<"lime">>
    /\ loops[1].failures = 0
    /\ loops[1].pc = "wait"

\* C8: StopAll sets the event of every tracked session and empties the table;
\* it shows Stopped when a tracked event was not set, No Active Heartbeat
\* otherwise.
StopAllCancelsAndClears ==
    [][manual_stop_heartbeat
          => /\ \A id \in DOMAIN hb_threads : events'[hb_threads[id]]
             /\ DOMAIN hb_threads' = {}
             /\ dialog' = IF \E id \in DOMAIN hb_threads : ~events[hb_threads[id]]
                          THEN "Stopped"
                          ELSE "No Active Heartbeat"]_vars

\* Two sessions of different hosts are cancelled, the table is empty and the
\* last handler showed Stopped.
StopAllCancelsAndClearsWitness ==
    /\ dialog = "Stopped"
    /\ DOMAIN hb_threads = {}
    /\ Len(events) = 2
    /\ events[1] /\ events[2]
    /\ loops[1].host.id # loops[2].host.id
    /\ ~closed

\* C9: a loop ends only at its test, with its event set: after an announce,
\* failed or not, it waits, and after the wait it announces again unless the
\* event is set.
LoopEndsOnlyWhenCancelled ==
    [][\A e \in 1..Len(loops) :
          /\ (loops[e].pc # "done" /\ loops'[e].pc = "done") => events[e]
          /\ (loops[e].pc = "post" /\ loops'[e].pc # "post") => loops'[e].pc = "wait"
          /\ (loops[e].pc = "wait" /\ loops'[e].pc # "wait" /\ ~events[e])
                => loops'[e].pc = "post"]_vars

\* A loop that is not cancelled announces again after two failures in a row.
LoopEndsOnlyWhenCancelledWitness ==
    \E e \in 1..Len(loops) :
        /\ ~events[e]
        /\ loops[e].pc = "post"
        /\ loops[e].failures = 2

\* C10: once closeEvent has run, the event of every loop ever started is set.
AllCancelledAfterClose ==
    closed => \A e \in 1..Len(events) : events[e]

\* The window was closed with one session tracked and another stopped before.
AllCancelledAfterCloseWitness ==
    /\ closed
    /\ Len(events) = 2
    /\ Cardinality(DOMAIN hb_threads) = 1
    /\ \E e \in 1..Len(loops) : loops[e].pc # "done"

\* C13: a List leaves out the record last announced 60 seconds ago or more
\* and returns the record of another key announced less than 60 seconds ago;
\* an Announce leaves every record of another key, and whether a List would
\* show it, as they were.
ExpiryIsPerKey ==
    [][/\ get_servers
          => \A i, j \in 1..Len(servers) :
                (/\ clock - servers[i]["last_seen"] >= 60
                 /\ clock - servers[j]["last_seen"] < 60)
                => /\ ~InSeq(servers[i], response'.json)
                   /\ InSeq(servers[j], response'.json)
       /\ \A data \in CompletePayloads :
             add_server(data)
             => \A i \in 1..Len(servers) :
                   ~SameKey(servers[i], data)
                   => /\ i <= Len(servers')
                      /\ servers'[i] = servers[i]
                      /\ Fresh(servers'[i], clock') <=> Fresh(servers[i], clock)]_vars

\* At time 61 the first key, announced at time 0 only, is left out of the List
\* that returns the second key, announced since.
ExpiryIsPerKeyWitness ==
    /\ clock = 61
    /\ Len(servers) = 2
    /\ servers[1]["last_seen"] = 0
    /\ servers[2]["last_seen"] >= 59
    /\ response.route = "/servers"
    /\ response.json = <<servers[2]>>

\* C14: a List changes no stored record and no last_seen.
ListIsReadOnly ==
    [][get_servers => servers' = servers]_vars

\* A List was answered with nothing while an expired record stays stored with
\* the last_seen it had.
ListIsReadOnlyWitness ==
    /\ response.route = "/servers"
    /\ response.json = <<>>
    /\ Len(servers) = 1
    /\ clock - servers[1]["last_seen"] >= 60

\* C15: two hosts that agree on name, public_ip, port and map send the same
\* announce and leave the registry in the same state, whatever their local_ip,
\* password and exe_path; no stored record holds one of these fields.
AnnounceIgnoresPrivateFields ==
    [][\A h, g \in HostVariants :
          (/\ h.name = g.name /\ h.public_ip = g.public_ip
           /\ h.port = g.port /\ h.map = g.map
           /\ hb_announce(h))
          => /\ hb_payload(g) = hb_payload(h)
             /\ hb_announce(g)
             /\ \A i \in 1..Len(servers') :
                   DOMAIN servers'[i] \cap {"id", "local_ip", "password", "exe_path"} = {}]_vars

\* Both hosts have announced and the registry holds a record of five fields
\* for each.
AnnounceIgnoresPrivateFieldsWitness ==
    /\ response.route = "/add_server"
    /\ Len(servers) = 2
    /\ \A i \in 1..2 :
          DOMAIN servers[i] = {"name", "public_ip", "port", "map", "last_seen"}
    /\ servers[1]["last_seen"] # servers[2]["last_seen"]

\* C16: whatever the interleaving of the requests, the stored list holds one
\* record per (public_ip, port) at most, and so does every answer to a List.
OneRecordPerKeyWhenConcurrent ==
    /\ \A i, j \in 1..Len(servers) : SameKey(servers[i], servers[j]) => i = j
    /\ response.route = "/servers"
       => \A i, j \in 1..Len(response.json) :
             SameKey(response.json[i], response.json[j]) => i = j

\* C17: when StopAll has cancelled every session, every loop has ended and no
\* emission awaits delivery, the status shown is the red that StopAll set.
StoppedIsLastStatus ==
    (/\ ~closed
     /\ Len(loops) >= 1
     /\ DOMAIN hb_threads = {}
     /\ \A e \in 1..Len(loops) : events[e] /\ loops[e].pc = "done"
     /\ hb_signal = <<>>)
    => hb_status = "red"

\* C19: a loop never has two of its requests in flight; the request of an
\* attempt is over, answered or failed, whenever the loop waits, tests or has
\* ended, and exactly one is in flight while the loop is in requests.post.
AnnouncesAreSequential ==
    \A e \in 1..Len(loops) :
        /\ loops[e].inflight <= 1
        /\ loops[e].pc = "post" <=> loops[e].inflight = 1
        /\ loops[e].pc \in {"start", "wait", "done"} => loops[e].inflight = 0

\* A loop whose first attempt failed is in its second attempt with one request
\* in flight, while the other host's loop waits with none.
AnnouncesAreSequentialWitness ==
    /\ Len(loops) = 2
    /\ loops[1].pc = "post" /\ loops[1].failures = 1 /\ loops[1].inflight = 1
    /\ loops[2].pc = "wait" /\ loops[2].inflight = 0
    /\ ~events[1] /\ ~events[2]

\* C18: once a loop's event is set it stays set, and the loop only moves on
\* towards its end: a wait or a start is followed by the end, never by another
\* announce, so the only announce after the signal is the one whose test had
\* passed already; and the loop does end, unless the window is closed first,
\* which ends the process and its daemon threads.
CancelTakesEffect ==
    /\ [][\A e \in 1..Len(loops) :
             events[e]
             => /\ events'[e]
                /\ loops[e].pc = "start" => loops'[e].pc \in {"start", "done"}
                /\ loops[e].pc = "wait" => loops'[e].pc \in {"wait", "done"}
                /\ loops[e].pc = "post" => loops'[e].pc \in {"post", "wait"}
                /\ loops[e].pc = "done" => loops'[e].pc = "done"]_vars
    /\ \A e \in 1..MaxEvents :
          (e <= Len(loops) /\ events[e])
          ~> (closed \/ (e <= Len(loops) /\ loops[e].pc = "done"))

\* The first loop has ended after its cancellation and the second, cancelled
\* while its announce was in flight, is still in that announce.
CancelTakesEffectWitness ==
    /\ ~closed
    /\ Len(loops) = 2
    /\ events[1] /\ loops[1].pc = "done"
    /\ events[2] /\ loops[2].pc = "post"

LaunchedCfg == hosts[launch.row + 1]

HostPathTaken == launch.calls # <<>> /\ launch.calls[1].kind = "server"

\* C11, as the specification states it: a launch that asked for the password
\* takes the host path exactly when the text the dialog returned equals the
\* stored password, and the host path makes exactly two spawns, the server and
\* then, 10 seconds later or more, the client at local_ip:port.
HostPathIffPasswordMatches ==
    launch.prompted
    => /\ HostPathTaken <=> launch.pw = LaunchedCfg.password
       /\ HostPathTaken
          => /\ Len(launch.calls) = 2
             /\ launch.calls[2].kind = "client"
             /\ launch.calls[2].target = Endpoint(LaunchedCfg.local_ip, LaunchedCfg.port)
             /\ launch.calls[2].at >= launch.calls[1].at + 10

\* C11, amended: the host path is taken exactly when the dialog was accepted
\* and its text equals the stored password; the host path spawns the server
\* first and, when the server's process was created, the client at
\* local_ip:port 10 seconds later or more and nothing else; when it was not
\* created, a launch error is shown and no client is spawned.
HostPathIffAcceptedAndMatches ==
    launch.prompted
    => /\ HostPathTaken <=> (launch.ok /\ launch.pw = LaunchedCfg.password)
       /\ HostPathTaken
          => /\ launch.calls[1].map = LaunchedCfg.map
             /\ launch.calls[1].target = Endpoint("", LaunchedCfg.port)
             /\ IF launch.calls[1].created
                THEN /\ Len(launch.calls) = 2
                     /\ launch.calls[2].kind = "client"
                     /\ launch.calls[2].exe = launch.calls[1].exe
                     /\ launch.calls[2].target
                           = Endpoint(LaunchedCfg.local_ip, LaunchedCfg.port)
                     /\ launch.calls[2].at >= launch.calls[1].at + 10
                ELSE /\ Len(launch.calls) = 1
                     /\ dialog = "Launch Error"

\* The password of the first host was entered and accepted: the server was
\* created and, 10 seconds later, the client at the host's local address.
HostPathIffAcceptedAndMatchesWitness ==
    /\ launch.prompted /\ launch.row = 0
    /\ launch.ok /\ launch.pw = "abc"
    /\ Len(launch.calls) = 2
    /\ launch.calls[1].kind = "server" /\ launch.calls[1].created
    /\ launch.calls[2].kind = "client" /\ launch.calls[2].created
    /\ launch.calls[2].target = Endpoint("192.168.0.2", 7777)
    /\ launch.calls[2].at = 10
    /\ dialog = ""

\* C12: a launch whose dialog returned a text other than the stored password
\* makes exactly one Popen call, the client's with public_ip:port, and none
\* for a server.
GuestPathSpawnsClientOnly ==
    (launch.prompted /\ launch.pw # LaunchedCfg.password)
    => /\ Len(launch.calls) = 1
       /\ launch.calls[1].kind = "client"
       /\ launch.calls[1].target = Endpoint(LaunchedCfg.public_ip, LaunchedCfg.port)
       /\ launch.calls[1].at = 0
       /\ \A c \in 1..Len(launch.calls) : launch.calls[c].kind # "server"

\* A blank text was accepted for the first host, whose password is abc: the
\* one process created is the client at the host's public address.
GuestPathSpawnsClientOnlyWitness ==
    /\ launch.prompted /\ launch.row = 0
    /\ launch.ok /\ launch.pw = "" /\ hosts[1].password = "abc"
    /\ Len(launch.calls) = 1
    /\ launch.calls[1].kind = "client" /\ launch.calls[1].created
    /\ launch.calls[1].target = Endpoint("1.2.3.4", 7777)

\* C21: a launch_selected call in which a process is not created shows Launch
\* Error; the call that failed is the last one it makes and no call is made
\* twice, so after a failed server there is no client; and the call leaves the
\* table, the events, the loops, the status and the window as they were.
LaunchFailureIsContained ==
    [][(launch' # launch)
          => LET calls == launch'.calls
             IN  /\ (\E c \in 1..Len(calls) : ~calls[c].created)
                    => dialog' = "Launch Error"
                 /\ \A c \in 1..Len(calls) : ~calls[c].created => c = Len(calls)
                 /\ \A c, d \in 1..Len(calls) : calls[c].kind = calls[d].kind => c = d
                 /\ (calls # <<>> /\ calls[1].kind = "server" /\ ~calls[1].created)
                    => Len(calls) = 1
                 /\ hb_threads' = hb_threads
                 /\ events' = events
                 /\ loops' = loops
                 /\ hb_signal' = hb_signal
                 /\ hb_status' = hb_status
                 /\ ~closed /\ ~closed']_vars

\* With one session cancelled and another tracked, the host path's server was
\* not created: Launch Error is shown and the server's call is the only one.
LaunchFailureIsContainedWitness ==
    /\ launch.prompted /\ launch.ok
    /\ Len(launch.calls) = 1
    /\ launch.calls[1].kind = "server" /\ ~launch.calls[1].created
    /\ dialog = "Launch Error"
    /\ Len(events) = 2 /\ events[1] /\ ~events[2]
    /\ DOMAIN hb_threads = {hosts[1].id}
    /\ ~closed

\* C22: when the selected host's exe_path is empty or does not exist and the
\* file dialog gives no path, launch_selected shows Error, asks for no
\* password, makes no Popen call and leaves hosts.json as it was.  The
\* password dialog, Popen and sleep are never reached, so their answers are
\* placeholders.
MissingExecutableStopsLaunch ==
    [][\A idx \in Rows, exists \in BOOLEAN :
          (/\ idx >= 0
           /\ hosts[idx + 1].exe_path = "" \/ ~exists
           /\ launch_selected(idx, -1, exists, "", "", FALSE, <<FALSE, FALSE>>, 0))
          => /\ dialog' = "Error"
             /\ ~launch'.prompted
             /\ launch'.calls = <<>>
             /\ hosts' = hosts]_vars

\* The first host got its path from the file dialog in an earlier launch; the
\* launch of the second, which has none, ended with Error and no call.
MissingExecutableStopsLaunchWitness ==
    /\ dialog = "Error"
    /\ launch.row = 1 /\ ~launch.prompted /\ launch.calls = <<>>
    /\ hosts[2].exe_path = ""
    /\ hosts[1].exe_path = "other.exe"

\* C23: after an Announce answered 200 the record of the payload's key has
\* the registry's clock as last_seen, also when the payload brings a last_seen
\* of its own; and no step makes the last_seen of a stored record smaller.
LastSeenIsServerClock ==
    [][/\ \A data \in CompletePayloads :
             add_server(data)
             => LET idx == ExistingIndex(servers', data)
                IN  /\ response'.code = 200
                    /\ idx # 0
                    /\ servers'[idx]["last_seen"] = clock
       /\ \A i \in 1..Len(servers) :
             /\ i <= Len(servers')
             /\ SameKey(servers'[i], servers[i])
             /\ servers'[i]["last_seen"] >= servers[i]["last_seen"]]_vars

\* The second key stored was announced at time 0 only; the first was announced
\* again at time 61 and carries 61.
LastSeenIsServerClockWitness ==
    /\ response.route = "/add_server" /\ response.code = 200
    /\ clock = 61
    /\ Len(servers) = 2
    /\ servers[1]["last_seen"] = 61
    /\ servers[2]["last_seen"] = 0

\* C24: no step shortens the stored list or moves a key to another place in
\* it; a List and the passing of time leave every record, expired or not,
\* stored as it is; and an Announce for a key whose record has expired
\* refreshes that record where it is, so that a List shows it again and the
\* key still has one record.
RecordsAreNeverRemoved ==
    [][/\ Len(servers') >= Len(servers)
       /\ \A i \in 1..Len(servers) : SameKey(servers'[i], servers[i])
       /\ (get_servers \/ clock' # clock) => servers' = servers
       /\ \A data \in CompletePayloads :
             add_server(data)
             => \A i \in 1..Len(servers) :
                   (SameKey(servers[i], data) /\ ~Fresh(servers[i], clock))
                   => /\ Len(servers') = Len(servers)
                      /\ Fresh(servers'[i], clock)
                      /\ InSeq(servers'[i], fresh_servers(servers', clock))
                      /\ servers'[i]["name"] = data["name"]
                      /\ \A j \in 1..Len(servers') :
                            SameKey(servers'[j], data) => j = i]_vars

\* Both keys were announced at time 0; at time 60, when both had expired, the
\* first was announced again and the second is still stored.
RecordsAreNeverRemovedWitness ==
    /\ response.route = "/add_server" /\ response.code = 200
    /\ clock = 60
    /\ Len(servers) = 2
    /\ servers[1]["last_seen"] = 60
    /\ servers[2]["last_seen"] = 0

\* C25: no two loops that have not ended belong to the same host id.
OneLiveLoopPerIdentity ==
    \A e, f \in 1..Len(loops) :
        (/\ loops[e].host.id = loops[f].host.id
         /\ loops[e].pc # "done"
         /\ loops[f].pc # "done")
        => e = f

\* C26: no two hosts of hosts.json have the same public_ip and port.
StoredHostsHaveDistinctEndpoints ==
    \A i, j \in 1..Len(hosts) :
        (hosts[i].public_ip = hosts[j].public_ip /\ hosts[i].port = hosts[j].port)
        => i = j

====
